---- MODULE Spec2Model ----
(***************************************************************************)
(* Model of the ZAP sidecar bridge (hanzoai/zap): the bounded-retry       *)
(* bootstrap of each backend adapter (New), the path dispatcher (handle), *)
(* the adapter operations and the shared response encoder (respond), as   *)
(* driven by cmd/zap-sidecar/main.go.                                     *)
(*                                                                         *)
(* Adapters: "sql" (internal/sql/proxy.go), "kv" (internal/kv/proxy.go),  *)
(* "dshttp" (datastore over the ClickHouse HTTP API), "dsnative"          *)
(* (datastore over the native protocol) and "doc" (documentdb).           *)
(***************************************************************************)
EXTENDS Integers, Sequences, FiniteSets, TLC

\* ---------------------------------------------------------------- constants

\* for i := 0; i < 30; i++  (the retry ceiling of every retrying New)
RetryCeiling == 30
\* if i == 29 { return nil, err }  (the index of the last iteration)
LastIndex == 29

StatusOK == 200
StatusBadRequest == 400
StatusNotFound == 404
StatusInternalServerError == 500
StatusBadGateway == 502
StatusServiceUnavailable == 503

\* Number of requests the transport delivers in one run of the process.
MaxRequests == 2

\* readyAt value of a backend that never becomes reachable.
NeverReady == RetryCeiling + 1

Adapters == {"sql", "kv", "dshttp", "dsnative", "doc"}

\* The build/launch configurations: main.go started with a -mode value (the
\* datastore package being compiled from either of its two variants), or the
\* documentdb package, which main.go does not select, started by an embedding
\* program that calls documentdb.New and later Stop.
Launches ==
    { [host |-> "main", mode |-> "sql", ds |-> "dsnative"],
      [host |-> "main", mode |-> "kv", ds |-> "dsnative"],
      [host |-> "main", mode |-> "datastore", ds |-> "dshttp"],
      [host |-> "main", mode |-> "datastore", ds |-> "dsnative"],
      [host |-> "main", mode |-> "documentdb", ds |-> "dsnative"],
      [host |-> "main", mode |-> "", ds |-> "dsnative"],
      [host |-> "embed", mode |-> "", ds |-> "dsnative"] }

NoErr == "nil"

VARIABLES
    launch,            \* the launch configuration (flags, build variant)
    adapter,           \* the adapter whose New is running / serving, or "none"
    pc,                \* position of main/New/Stop
    i,                 \* New: loop index
    err,               \* New: the err variable
    attempts,          \* connect/probe attempts New has made
    readyAt,           \* bootstrap: first attempt at which the backend is reachable
    logged,            \* attempt numbers carried by New's retry log entries
    openHandles,       \* connection handles currently open
    handlerRegistered, \* node.Handle has been called
    listening,         \* node.Start succeeded and node.Stop not yet called
    sigPending,        \* a SIGINT/SIGTERM is buffered in the sig channel
    sigAt,             \* when the first signal was delivered: "none", "bootstrap", "other"
    exitCode,          \* process exit code, -1 while running
    req,               \* the request being handled
    reqOp,             \* the operation handle selected for req
    reqPc,             \* "idle", "running", "done", "blocked", "panicked"
    resp,              \* the response envelope returned for req
    calls,             \* backend calls made while handling req
    args,              \* the arguments those calls were given
    served,            \* requests delivered so far
    abandoned,         \* batches prepared that a handler left neither sent nor aborted
    proxy,             \* the Proxy struct's fields: default database, handle reference
    conc               \* concurrent handler invocations: position and locals of each

vars == << launch, adapter, pc, i, err, attempts, readyAt, logged, openHandles,
           handlerRegistered, listening, sigPending, sigAt, exitCode,
           req, reqOp, reqPc, resp, calls, args, served, abandoned,
           proxy, conc >>

bootVars == << i, err, attempts, readyAt, logged >>
reqVars == << req, reqOp, reqPc, resp, calls, args, served, abandoned >>
concVars == << proxy, conc >>

\* No request delivered yet.
NoReq == [path |-> "",
          body |-> [text |-> << >>, len |-> 0, json |-> "syntax", blank |-> TRUE,
                    ctl |-> FALSE, sql |-> << >>, cmd |-> "", args |-> << >>,
                    columns |-> << >>, items |-> << >>, rows |-> 0],
          out |-> [kind |-> "none", status |-> 0, at |-> 0, msg |-> ""],
          ord |-> << >>]
NoResp == [status |-> 0]

\* No backend call made, or a call whose arguments are not looked at.
NoArgs == [stmt |-> << >>, cmd |-> "", params |-> << >>, cols |-> << >>, batch |-> << >>]

\* ------------------------------------------------------------------- main

\* switch *mode { case "sql": ... case "kv": ... case "datastore": ... }
ModeAdapter(l) ==
    CASE l.mode = "sql" -> "sql"
      [] l.mode = "kv" -> "kv"
      [] l.mode = "datastore" -> l.ds
      [] OTHER -> "none"

\* The database a request without an override works on: cfg.Database, with
\* "default" (datastore) or "hanzo" (documentdb) when it is empty; main sets
\* no Database. The sql and kv Proxy have no such field.
DefaultDatabase(a) ==
    CASE a \in {"dshttp", "dsnative"} -> "default"
      [] a = "doc" -> "hanzo"
      [] OTHER -> ""

\* The one connection handle (pool, client, conn, http.Client) a Proxy refers to.
TheHandle == "handle"

\* p := &Proxy{pool/client/conn: ..., database: cfg.Database, ...}
NoProxy == [database |-> "", handle |-> "none"]
NewProxy(a) == [database |-> DefaultDatabase(a), handle |-> TheHandle]

\* A handler invocation that is not running, and the workers' initial state.
Idle == [pc |-> "idle", op |-> "", override |-> "", db |-> "", handle |-> "none"]

Init ==
    /\ launch \in Launches
    /\ adapter = IF launch.host = "embed" THEN "doc" ELSE "none"
    /\ pc = IF launch.host = "embed" THEN "retry" ELSE "main"
    /\ i = 0
    /\ err = NoErr
    /\ attempts = 0
    /\ readyAt \in 1..NeverReady
    /\ logged = {}
    /\ openHandles = 0
    /\ handlerRegistered = FALSE
    /\ listening = FALSE
    /\ sigPending = FALSE
    /\ sigAt = "none"
    /\ exitCode = -1
    /\ req = NoReq
    /\ reqOp = ""
    /\ reqPc = "idle"
    /\ resp = NoResp
    /\ calls = << >>
    /\ args = NoArgs
    /\ served = 0
    /\ abandoned = 0
    /\ proxy = NoProxy
    /\ conc = << >>

\* main: the mode switch. An unknown mode logs and exits 1. kv.New creates its
\* client before the retry loop (kv.NewClient never fails).
MainSwitch ==
    /\ pc = "main"
    /\ LET a == ModeAdapter(launch) IN
       IF a = "none"
       THEN /\ pc' = "exit"
            /\ exitCode' = 1
            /\ UNCHANGED << adapter, openHandles >>
       ELSE /\ adapter' = a
            /\ pc' = "retry"
            /\ openHandles' = IF a = "kv" THEN 1 ELSE 0
            /\ UNCHANGED exitCode
    /\ UNCHANGED << concVars, launch, bootVars, handlerRegistered, listening, sigPending, sigAt, reqVars >>

\* ------------------------------------------------------------ bootstrap (New)

\* The backend answers the n-th connect/probe attempt successfully.
Reachable(n) == n >= readyAt

\* How an attempt against an unreachable backend can fail: the connect call
\* (pgxpool.New, clickhouse.Open, mongo.Connect) returns an error, or the
\* handle is created and its Ping fails. kv.NewClient cannot fail.
FailKinds(a) == IF a = "kv" THEN {"ping"} ELSE {"open", "ping"}

\* for i := 0; i < 30; i++
LoopContinues(idx) == idx < RetryCeiling

\* Mutant: the in-loop return on the last iteration is forgotten.
ReturnsOnLastNever(a, idx) == FALSE

\* if i == 29 { return nil, fmt.Errorf(...) } inside the loop of sql.New,
\* kv.New and documentdb.New; the native datastore loop has no such return.
ReturnsOnLast(a, idx) == a \in {"sql", "kv", "doc"} /\ idx = LastIndex

\* if err != nil { return nil, ... } after the loop of the native datastore.
AfterLoopFails(a, e) == a = "dsnative" /\ e # NoErr

\* Handles one loop iteration opens: pgxpool.New, clickhouse.Open and
\* mongo.Connect return a handle unless the connect call itself fails ("ok":
\* connect and ping succeed); kv.New created its client before the loop.
OpenedInAttempt(a, fk) == IF a # "kv" /\ fk # "open" THEN 1 ELSE 0

\* Mutant: a handle whose ping failed is left open.
ClosedInAttemptNever(a, fk, idx) == 0

\* Handles one loop iteration closes: pool.Close(), conn.Close() and
\* client.Disconnect after a failed ping; kv's client.Close() only in the
\* i == 29 branch.
ClosedInAttempt(a, fk, idx) ==
    IF fk # "ping" THEN 0
    ELSE IF a = "kv" THEN (IF idx = LastIndex THEN 1 ELSE 0)
    ELSE 1

\* The retry log entry of a failed iteration: sql.New, kv.New and
\* documentdb.New log "waiting for backend" with attempt i+1 after the
\* i == 29 return, the native datastore logs "not ready, retrying" with
\* attempt i+1 in every failed iteration.
LogsAttempt(a, idx) == a = "dsnative" \/ idx # LastIndex

\* One iteration of the retry loop of sql.New, kv.New, datastore.New (native)
\* and documentdb.New, including the loop exit that follows it.
NewAttempt ==
    /\ pc = "retry"
    /\ adapter \in {"sql", "kv", "dsnative", "doc"}
    /\ attempts' = attempts + 1
    /\ IF Reachable(attempts + 1)
       THEN \* connect and ping succeed: break
            /\ err' = NoErr
            /\ openHandles' = openHandles + OpenedInAttempt(adapter, "ok")
            /\ pc' = "register"
            /\ i' = i
            /\ logged' = logged
       ELSE \E fk \in FailKinds(adapter) :
            /\ err' = fk
            /\ logged' = IF LogsAttempt(adapter, i) THEN logged \cup {i + 1} ELSE logged
            /\ openHandles' = openHandles + OpenedInAttempt(adapter, fk)
                                           - ClosedInAttempt(adapter, fk, i)
            /\ IF ReturnsOnLast(adapter, i)
               THEN /\ pc' = "newFailed"
                    /\ i' = i
               ELSE /\ i' = i + 1
                    /\ pc' = IF LoopContinues(i + 1) THEN "retry"
                             ELSE IF AfterLoopFails(adapter, fk) THEN "newFailed"
                             ELSE "register"
    /\ UNCHANGED << concVars, launch, adapter, readyAt, handlerRegistered, listening,
                    sigPending, sigAt, exitCode, reqVars >>

\* How the single ping of the HTTP datastore sees an unreachable backend: the
\* GET fails in transport, or the backend answers with a non-success status.
HttpFailKinds == {"transport", "status"}

\* http.Get returns an error only when no response was received; the response
\* status is not inspected.
HttpPingErr(reachable, fk) == ~reachable /\ fk = "transport"

\* datastore.New (HTTP): one GET /ping, no retry loop.
NewPing ==
    /\ pc = "retry"
    /\ adapter = "dshttp"
    /\ attempts' = attempts + 1
    /\ \E fk \in HttpFailKinds :
          IF HttpPingErr(Reachable(attempts + 1), fk)
          THEN /\ err' = "ping"
               /\ pc' = "newFailed"
          ELSE /\ err' = NoErr
               /\ pc' = "register"
    /\ UNCHANGED << concVars, launch, adapter, i, readyAt, logged, openHandles,
                    handlerRegistered, listening, sigPending, sigAt, exitCode, reqVars >>

\* p := &Proxy{...}; node := zap.NewNode(...); node.Handle(MsgType, ...)
NewRegister ==
    /\ pc = "register"
    /\ proxy' = NewProxy(adapter)
    /\ handlerRegistered' = TRUE
    /\ pc' = "listen"
    /\ UNCHANGED << conc, launch, adapter, bootVars, openHandles, listening,
                    sigPending, sigAt, exitCode, reqVars >>

\* Mutant: the handle is not closed when node.Start fails.
ClosesOnStartFailureNever(a) == FALSE

\* The adapters whose New closes the handle when node.Start fails.
ClosesOnStartFailure(a) == a \in {"sql", "kv", "dsnative", "doc"}

\* if err := node.Start(); err != nil { handle.Close(); return nil, err }
NewStart ==
    /\ pc = "listen"
    /\ \E ok \in BOOLEAN :
          IF ok
          THEN /\ listening' = TRUE
               /\ pc' = "serving"
               /\ UNCHANGED openHandles
          ELSE /\ listening' = FALSE
               /\ openHandles' = openHandles - (IF ClosesOnStartFailure(adapter) THEN 1 ELSE 0)
               /\ pc' = "newFailed"
    \* New returns: its loop index goes out of scope, and the bootstrap
    \* bookkeeping (attempts made, the backend's readiness schedule) ends; how
    \* the backend behaves while serving is drawn per request.
    /\ i' = 0
    /\ attempts' = 0
    /\ readyAt' = 0
    /\ logged' = {}
    /\ UNCHANGED << concVars, launch, adapter, err, handlerRegistered,
                    sigPending, sigAt, exitCode, reqVars >>

\* main: if err != nil { logger.Error(...); os.Exit(1) }
MainFail ==
    /\ pc = "newFailed"
    /\ launch.host = "main"
    /\ pc' = "exit"
    /\ exitCode' = 1
    /\ UNCHANGED << concVars, launch, adapter, bootVars, openHandles, handlerRegistered,
                    listening, sigPending, sigAt, reqVars >>

\* ------------------------------------------------------- signals and shutdown

\* sig := make(chan os.Signal, 1)
SigCapacity == 1

\* Mutant: the channel is unbuffered, make(chan os.Signal).
SignalKeptUnbuffered(p) == p = "serving"

\* signal.Notify never blocks: the signal is put in the channel if it has
\* room, or handed over if main is receiving (<-sig), and dropped otherwise.
SignalKept(p) == SigCapacity >= 1 \/ p = "serving"

\* SIGINT/SIGTERM delivered to the process: signal.Notify on a channel of
\* capacity 1 keeps one and drops the rest.
Signal ==
    /\ launch.host = "main"
    /\ pc # "exit"
    /\ ~sigPending
    /\ sigPending' = SignalKept(pc)
    /\ sigAt' = IF sigAt # "none" THEN sigAt
                ELSE IF pc \in {"retry", "register", "listen"} THEN "bootstrap"
                ELSE "other"
    /\ UNCHANGED << concVars, launch, adapter, pc, bootVars, openHandles, handlerRegistered,
                    listening, exitCode, reqVars >>

\* main: <-sig; svc.Stop(). An embedding program calls Stop when it chooses.
MainWait ==
    /\ pc = "serving"
    /\ IF launch.host = "main"
       THEN sigPending /\ sigPending' = FALSE
       ELSE UNCHANGED sigPending
    /\ pc' = "stopNode"
    /\ UNCHANGED << concVars, launch, adapter, bootVars, openHandles, handlerRegistered,
                    listening, sigAt, exitCode, reqVars >>

\* Mutant: Stop releases the handle first and leaves the node running.
StopNodeReleasesFirst ==
    /\ pc = "stopNode"
    /\ openHandles' = openHandles - 1
    /\ pc' = "stopHandle"
    /\ UNCHANGED << concVars, launch, adapter, bootVars, listening, handlerRegistered,
                    sigPending, sigAt, exitCode, reqVars >>

\* Stop: if p.node != nil { p.node.Stop() }
StopNode ==
    /\ pc = "stopNode"
    /\ listening' = FALSE
    /\ pc' = "stopHandle"
    /\ UNCHANGED << concVars, launch, adapter, bootVars, openHandles, handlerRegistered,
                    sigPending, sigAt, exitCode, reqVars >>

\* The adapters whose Proxy holds a connection handle (pool, client, conn);
\* the HTTP datastore holds an http.Client and its Stop closes nothing.
ClosesOnStop(a) == a \in {"sql", "kv", "dsnative", "doc"}

\* Stop: if p.pool != nil { p.pool.Close() }; main then returns (exit code 0).
StopHandle ==
    /\ pc = "stopHandle"
    /\ openHandles' = openHandles - (IF ClosesOnStop(adapter) THEN 1 ELSE 0)
    /\ pc' = "exit"
    /\ exitCode' = IF launch.host = "main" THEN 0 ELSE exitCode
    /\ UNCHANGED << concVars, launch, adapter, bootVars, handlerRegistered, listening,
                    sigPending, sigAt, reqVars >>

\* ------------------------------------------------------- requests and outcomes

\* A body is a byte string; its text is kept as the sequence of its lexical
\* pieces, each a run of whitespace or a run of other bytes.
Whitespace == {" ", "  "}

\* strings.Fields: the maximal runs of non-whitespace, in order.
RECURSIVE Fields(_)
Fields(text) ==
    IF text = << >> THEN << >>
    ELSE IF Head(text) \in Whitespace THEN Fields(Tail(text))
    ELSE << Head(text) >> \o Fields(Tail(text))

\* Request bodies, by what the handlers look at: the text and its byte length
\* (only len(body) > 0 is ever tested; pieces are counted), what json.Unmarshal
\* into the operation's request struct reports ("syntax": not JSON; "type": a
\* JSON object with a field of the wrong type; "ok"), whether strings.Fields
\* yields no token, whether the decoded database or table name holds a control
\* character, and what Unmarshal leaves in the struct: the sql and cmd
\* strings, the args list, the columns list and the rows/documents list with
\* its length. After a type error Unmarshal has still stored every field
\* that did decode.
Body(text, json, ctl, dec) ==
    [text |-> text, len |-> Len(text), json |-> json, blank |-> Fields(text) = << >>,
     ctl |-> ctl, sql |-> dec.sql, cmd |-> dec.cmd, args |-> dec.args,
     columns |-> dec.columns, items |-> dec.items, rows |-> Len(dec.items)]

\* The zero value of a request struct.
Zero == [sql |-> << >>, cmd |-> "", args |-> << >>, columns |-> << >>, items |-> << >>]

\* A value absent from a row: the nil interface, JSON null.
Null == "nil"

\* Two rows: the second lacks a key of the first and has one the first lacks.
Items == << [id |-> "1", name |-> "a"], [id |-> "2", extra |-> "x"] >>

Decoded == [sql |-> << "SELECT", " ", "$1" >>, cmd |-> "SET", args |-> << "k", "v" >>,
            columns |-> << >>, items |-> Items]

BodyEmpty == Body(<< >>, "syntax", FALSE, Zero)
BodySpaces == Body(<< "  " >>, "syntax", FALSE, Zero)
BodyRaw == Body(<< " ", "GET", "  ", "k", " " >>, "syntax", FALSE, Zero)
\* {"sql":5,"cmd":5,"key":5,"table":5,"filter":5, ...} without args
BodyTypeErr == Body(<< "{\"sql\":5}" >>, "type", FALSE, Zero)
\* the same with "args":["a"], which decodes
BodyTypeErrArgs ==
    Body(<< "{\"sql\":5,", " ", "\"args\":[\"a\"]}" >>, "type", FALSE,
         [Zero EXCEPT !.args = << "a" >>])
BodyJsonNoRows == Body(<< "{\"rows\":[]}" >>, "ok", FALSE, [Decoded EXCEPT !.items = << >>])
BodyJson == Body(<< "{json}" >>, "ok", FALSE, Decoded)
BodyJsonCols ==
    Body(<< "{json,columns}" >>, "ok", FALSE, [Decoded EXCEPT !.columns = << "name", "id" >>])
BodyJsonCtl == Body(<< "{json,\\n}" >>, "ok", TRUE, Decoded)

Bodies == { BodyEmpty, BodySpaces, BodyRaw, BodyTypeErr, BodyTypeErrArgs, BodyJsonNoRows,
            BodyJson, BodyJsonCols, BodyJsonCtl }

\* The routes of each adapter's handle switch.
Routes(a) ==
    CASE a = "sql" -> {"/query", "/exec", "/health"}
      [] a = "kv" -> {"/health", "/get", "/set", "/mget", "/cmd"}
      [] a = "dshttp" -> {"/health", "/query", "/insert"}
      [] a = "dsnative" -> {"/health", "/query", "/exec", "/insert", "/tables"}
      [] a = "doc" -> {"/find", "/insert", "/update", "/delete", "/health"}
      [] OTHER -> {}

\* Paths a client sends: the adapter's routes, the empty path, an unknown path,
\* near misses of a route, and a route of another adapter.
Paths(a) == Routes(a) \cup {"", "/nope", "/health/", "/Query", "/get", "/find"}

\* What the backend does with the calls of one request.
Out(kind) == [kind |-> kind, status |-> 0, at |-> 0, msg |-> "backend: " \o kind]
Reject(code) == [kind |-> "reject", status |-> code, at |-> 0, msg |-> "backend: rejected"]
AppendErr(row) == [kind |-> "appendErr", status |-> 0, at |-> row, msg |-> "backend: bad value"]
DeadlineExceeded == [kind |-> "err", status |-> 0, at |-> 0, msg |-> "context deadline exceeded"]

\* "ok": every call succeeds; "err": the first call returns a driver error;
\* "hang": the first call never returns on its own; the rest are specific to
\* an operation.
Common == {Out("ok"), Out("err"), Out("hang")}

\* Statuses a ClickHouse HTTP endpoint answers a rejected statement with.
RejectStatuses == {StatusBadRequest, StatusNotFound, StatusInternalServerError}

BackendOutcomes(a, op, body) ==
    CASE op = "notfound" -> {Out("ok")}
      [] a = "sql" /\ op = "query" -> Common \cup {Out("scanErr"), Out("streamErr")}
      [] a = "kv" /\ op \in {"get", "cmd"} -> Common \cup {Out("nil")}
      [] a = "dshttp" /\ op \in {"query", "insert"} ->
            Common \cup {Reject(c) : c \in RejectStatuses}
      [] a = "dshttp" /\ op = "health" -> Common \cup {Reject(StatusServiceUnavailable)}
      [] a = "dsnative" /\ op \in {"query", "tables"} ->
            Common \cup {Out("scanErr"), Out("streamErr")}
      [] a = "dsnative" /\ op = "insert" ->
            Common \cup {Out("sendErr")} \cup {AppendErr(r) : r \in 1..body.rows}
      [] a = "doc" /\ op = "find" -> Common \cup {Out("cursorErr")}
      \* InsertMany returns an error for an empty document list
      [] a = "doc" /\ op = "insert" /\ body.json = "ok" /\ body.rows = 0 -> {Out("err")}
      [] OTHER -> Common

\* The orders in which a range over a Go map can yield the keys of a row.
KeyOrders(row) ==
    { s \in [1..Cardinality(DOMAIN row) -> DOMAIN row] :
         \A a, b \in DOMAIN s : a # b => s[a] # s[b] }

\* The iteration order the runtime picks for "for k := range req.Rows[0]",
\* the only map range whose order reaches a backend call.
MapOrders(a, op, body) ==
    IF a = "dsnative" /\ op = "insert" /\ body.json = "ok" /\ body.rows > 0
    THEN KeyOrders(body.items[1])
    ELSE {<< >>}

\* ------------------------------------------------------------ response encoder

\* respond(status, data): the envelope with the status, the JSON document of
\* data as body and the JSON content type.
respond(status, data) ==
    [status |-> status, body |-> data, headers |-> "application/json"]

\* respondRaw(status, raw): the body is passed through as newline-delimited JSON.
respondRaw(status, raw) ==
    [status |-> status, body |-> raw, headers |-> "application/x-ndjson"]

\* Number of occurrences of call c in the sequence cs.
Count(cs, c) == Cardinality({k \in 1..Len(cs) : cs[k] = c})

\* What running a handler to its end yields: a response envelope, a handler
\* that waits forever on a backend call, or a handler that panicked.
Reply(r, cs) == [kind |-> "resp", resp |-> r, calls |-> cs]
Blocked(cs) == [kind |-> "blocked", resp |-> NoResp, calls |-> cs]
Panicked(cs) == [kind |-> "panic", resp |-> NoResp, calls |-> cs]

\* Mutant: the error is reported under another key.
ErrBodyMessage(msg) == [message |-> msg]

\* map[string]string{"error": ...}
ErrBody(msg) == [error |-> msg]

\* json.Unmarshal(body, &req) returned an error.
DecodeFails(body) == body.json # "ok"

\* Rows the backend produces for a successful read, and the rows delivered
\* before a stream that fails midway breaks off.
ResultRows == << "row1", "row2" >>
PartialRows == << "row1" >>

\* ---------------------------------------------------------------- sql adapter

\* if err := json.Unmarshal(body, &req); err != nil { req.SQL = string(body) }
\* in Proxy.query and Proxy.exec: only req.SQL is assigned on a decode error.
sqlStatement(body) == IF DecodeFails(body) THEN body.text ELSE body.sql

\* req.Args as passed to pool.Query / pool.Exec: what Unmarshal stored.
sqlArgs(body) == body.args

\* rows.FieldDescriptions() of the result, and the value tuples rows.Values()
\* yields for the rows the backend produces for the statement.
FieldDescriptions == << "id", "name" >>
BackendRows == << << "1", "a" >>, << "2", "b" >> >>

\* row[string(d.Name)] = vals[i] for i, d := range descs
RowMap(vals) ==
    [c \in {FieldDescriptions[k] : k \in DOMAIN FieldDescriptions} |->
        vals[CHOOSE k \in DOMAIN FieldDescriptions :
                /\ FieldDescriptions[k] = c
                /\ \A j \in DOMAIN FieldDescriptions : FieldDescriptions[j] = c => j <= k]]

\* results after rows.Next() has returned true n times.
sqlRows(n) == [k \in 1..n |-> RowMap(BackendRows[k])]

\* Proxy.query: decode (raw body as statement on decode failure), pool.Query,
\* then rows.Next/rows.Values until Next reports false; rows.Err is not read.
sqlQuery(body, out) ==
    CASE out.kind = "hang" -> Blocked(<< "Query" >>)
      [] out.kind = "err" ->
            Reply(respond(StatusInternalServerError, ErrBody(out.msg)), << "Query" >>)
      [] out.kind = "scanErr" ->
            Reply(respond(StatusInternalServerError, ErrBody(out.msg)), << "Query" >>)
      [] out.kind = "streamErr" ->
            Reply(respond(StatusOK, [rows |-> sqlRows(Len(PartialRows)),
                                     count |-> Len(sqlRows(Len(PartialRows)))]),
                  << "Query" >>)
      [] OTHER ->
            Reply(respond(StatusOK, [rows |-> sqlRows(Len(BackendRows)),
                                     count |-> Len(sqlRows(Len(BackendRows)))]),
                  << "Query" >>)

\* Mutant: a failed Exec is issued a second time before the error is reported.
sqlExecRetry(body, out) ==
    CASE out.kind = "hang" -> Blocked(<< "Exec" >>)
      [] out.kind = "err" ->
            Reply(respond(StatusInternalServerError, ErrBody(out.msg)), << "Exec", "Exec" >>)
      [] OTHER ->
            Reply(respond(StatusOK, [rows_affected |-> 1, command |-> "tag"]), << "Exec" >>)

\* Proxy.exec: decode (raw body as statement on decode failure), pool.Exec.
sqlExec(body, out) ==
    CASE out.kind = "hang" -> Blocked(<< "Exec" >>)
      [] out.kind = "err" ->
            Reply(respond(StatusInternalServerError, ErrBody(out.msg)), << "Exec" >>)
      [] OTHER ->
            Reply(respond(StatusOK, [rows_affected |-> 1, command |-> "tag"]), << "Exec" >>)

\* Proxy.health: pool.Ping.
sqlHealth(out) ==
    CASE out.kind = "hang" -> Blocked(<< "Ping" >>)
      [] out.kind = "err" ->
            Reply(respond(StatusServiceUnavailable, ErrBody(out.msg)), << "Ping" >>)
      [] OTHER ->
            Reply(respond(StatusOK, [status |-> "ok", service |-> "hanzo-sql"]), << "Ping" >>)

\* Mutant: the default case falls back to query without looking at the body.
sqlRouteFallbackAlways(path, body) ==
    CASE path = "/query" -> "query"
      [] path = "/exec" -> "exec"
      [] path = "/health" -> "health"
      [] OTHER -> "query"

\* Proxy.handle: the switch on path, as the operation it selects.
sqlRoute(path, body) ==
    CASE path = "/query" -> "query"
      [] path = "/exec" -> "exec"
      [] path = "/health" -> "health"
      [] OTHER -> IF body.len > 0 THEN "query" ELSE "notfound"

sqlHandle(path, body, out) ==
    LET op == sqlRoute(path, body) IN
    CASE op = "query" -> sqlQuery(body, out)
      [] op = "exec" -> sqlExec(body, out)
      [] op = "health" -> sqlHealth(out)
      [] OTHER -> Reply(respond(StatusNotFound, ErrBody("unknown: " \o path)), << >>)

\* ----------------------------------------------------------------- kv adapter

\* Mutant: on a decode error only req.Cmd is taken from the tokens.
kvCmdLineCmdOnly(body) ==
    IF DecodeFails(body)
    THEN (IF Fields(body.text) = << >> THEN << >> ELSE << Head(Fields(body.text)) >>)
         \o body.args
    ELSE << body.cmd >> \o body.args

\* The args slice given to client.Do: req.Cmd followed by req.Args, both
\* taken from strings.Fields(string(body)) on a decode error.
kvCmdLine(body) ==
    IF DecodeFails(body) THEN Fields(body.text) ELSE << body.cmd >> \o body.args

\* Proxy.cmd: JSON {cmd, args}, or on decode failure strings.Fields(body);
\* no token: 400. Then client.Do.
kvCmd(body, out) ==
    IF DecodeFails(body) /\ body.blank
    THEN Reply(respond(StatusBadRequest, ErrBody("empty command")), << >>)
    ELSE CASE out.kind = "hang" -> Blocked(<< "Do" >>)
           [] out.kind \in {"err", "nil"} ->
                 Reply(respond(StatusInternalServerError, ErrBody(out.msg)), << "Do" >>)
           [] OTHER -> Reply(respond(StatusOK, [result |-> "result"]), << "Do" >>)

\* Mutant: kv.Nil is not told apart from other errors.
kvGetNilAsError(body, out) ==
    CASE out.kind = "hang" -> Blocked(<< "Get" >>)
      [] out.kind \in {"nil", "err"} ->
            Reply(respond(StatusInternalServerError, ErrBody(out.msg)), << "Get" >>)
      [] OTHER -> Reply(respond(StatusOK, [value |-> "stored"]), << "Get" >>)

\* Proxy.get: err == kv.Nil is answered 200 {"value": null}, any other error
\* 500, a found key 200 with its value.
kvGet(body, out) ==
    CASE out.kind = "hang" -> Blocked(<< "Get" >>)
      [] out.kind = "nil" -> Reply(respond(StatusOK, [value |-> "null"]), << "Get" >>)
      [] out.kind = "err" ->
            Reply(respond(StatusInternalServerError, ErrBody(out.msg)), << "Get" >>)
      [] OTHER -> Reply(respond(StatusOK, [value |-> "stored"]), << "Get" >>)

\* Proxy.set: decode failure 400, then client.Set once.
kvSet(body, out) ==
    IF DecodeFails(body)
    THEN Reply(respond(StatusBadRequest, ErrBody("json: " \o body.json)), << >>)
    ELSE CASE out.kind = "hang" -> Blocked(<< "Set" >>)
           [] out.kind = "err" ->
                 Reply(respond(StatusInternalServerError, ErrBody(out.msg)), << "Set" >>)
           [] OTHER -> Reply(respond(StatusOK, [status |-> "OK"]), << "Set" >>)

\* Proxy.mget: decode failure 400, then client.MGet.
kvMget(body, out) ==
    IF DecodeFails(body)
    THEN Reply(respond(StatusBadRequest, ErrBody("json: " \o body.json)), << >>)
    ELSE CASE out.kind = "hang" -> Blocked(<< "MGet" >>)
           [] out.kind = "err" ->
                 Reply(respond(StatusInternalServerError, ErrBody(out.msg)), << "MGet" >>)
           [] OTHER -> Reply(respond(StatusOK, [values |-> "values"]), << "MGet" >>)

\* Proxy.health: client.Ping.
kvHealth(out) ==
    CASE out.kind = "hang" -> Blocked(<< "Ping" >>)
      [] out.kind = "err" ->
            Reply(respond(StatusServiceUnavailable, ErrBody(out.msg)), << "Ping" >>)
      [] OTHER ->
            Reply(respond(StatusOK, [status |-> "ok", service |-> "hanzo-kv"]), << "Ping" >>)

kvRoute(path, body) ==
    CASE path = "/health" -> "health"
      [] path = "/get" -> "get"
      [] path = "/set" -> "set"
      [] path = "/mget" -> "mget"
      [] path = "/cmd" -> "cmd"
      [] OTHER -> IF body.len > 0 THEN "cmd" ELSE "notfound"

kvHandle(path, body, out) ==
    LET op == kvRoute(path, body) IN
    CASE op = "health" -> kvHealth(out)
      [] op = "get" -> kvGet(body, out)
      [] op = "set" -> kvSet(body, out)
      [] op = "mget" -> kvMget(body, out)
      [] op = "cmd" -> kvCmd(body, out)
      [] OTHER -> Reply(respond(StatusNotFound, ErrBody("unknown: " \o path)), << >>)

\* ------------------------------------------------- datastore adapter over HTTP

\* http.NewRequest fails to parse a URL holding a control character and returns
\* a nil request; its error is discarded (httpReq, _ := http.NewRequest(...)),
\* and httpReq.Header.Set then dereferences nil. The URL carries the request's
\* database (query) or database and table (insert); on the raw-statement
\* fallback the configured database is used.
NilRequest(body) == ~DecodeFails(body) /\ body.ctl

\* Proxy.query: POST of the statement through an http.Client without timeout;
\* a transport error is 502, a non-200 answer is passed on with its own status.
dsHttpQuery(body, out) ==
    IF NilRequest(body) THEN Panicked(<< >>)
    ELSE CASE out.kind = "hang" -> Blocked(<< "PostQuery" >>)
           [] out.kind = "err" ->
                 Reply(respond(StatusBadGateway, ErrBody(out.msg)), << "PostQuery" >>)
           [] out.kind = "reject" ->
                 Reply(respond(out.status, ErrBody(out.msg)), << "PostQuery" >>)
           [] OTHER -> Reply(respondRaw(StatusOK, "ndjson"), << "PostQuery" >>)

\* Proxy.insert: decode failure 400; the rows as NDJSON in one POST.
dsHttpInsert(body, out) ==
    IF DecodeFails(body)
    THEN Reply(respond(StatusBadRequest, ErrBody("json: " \o body.json)), << >>)
    ELSE IF NilRequest(body) THEN Panicked(<< >>)
    ELSE CASE out.kind = "hang" -> Blocked(<< "PostInsert" >>)
           [] out.kind = "err" ->
                 Reply(respond(StatusBadGateway, ErrBody(out.msg)), << "PostInsert" >>)
           [] out.kind = "reject" ->
                 Reply(respond(out.status, ErrBody(out.msg)), << "PostInsert" >>)
           [] OTHER ->
                 Reply(respond(StatusOK, [status |-> "ok", inserted |-> body.rows]),
                       << "PostInsert" >>)

\* Proxy.health: GET /ping; only a transport error counts as unhealthy.
dsHttpHealth(out) ==
    CASE out.kind = "hang" -> Blocked(<< "GetPing" >>)
      [] out.kind = "err" ->
            Reply(respond(StatusServiceUnavailable, ErrBody(out.msg)), << "GetPing" >>)
      [] OTHER ->
            Reply(respond(StatusOK, [status |-> "ok", service |-> "hanzo-datastore"]),
                  << "GetPing" >>)

dsHttpRoute(path, body) ==
    CASE path = "/health" -> "health"
      [] path = "/query" -> "query"
      [] path = "/insert" -> "insert"
      [] OTHER -> IF body.len > 0 THEN "query" ELSE "notfound"

dsHttpHandle(path, body, out) ==
    LET op == dsHttpRoute(path, body) IN
    CASE op = "health" -> dsHttpHealth(out)
      [] op = "query" -> dsHttpQuery(body, out)
      [] op = "insert" -> dsHttpInsert(body, out)
      [] OTHER -> Reply(respond(StatusNotFound, ErrBody("unknown: " \o path)), << >>)

\* ---------------------------------------- datastore adapter, native protocol

\* Every native operation runs under context.WithTimeout (query and exec 30 s,
\* insert 60 s, tables 10 s, health 5 s): a call that would never return is
\* aborted with a deadline error.
WithTimeout(out) == IF out.kind = "hang" THEN DeadlineExceeded ELSE out

\* Proxy.query: conn.Query, rows.Scan per row, rows.Err after the loop.
dsQuery(body, out) ==
    LET o == WithTimeout(out) IN
    CASE o.kind = "err" ->
            Reply(respond(StatusBadGateway, ErrBody(o.msg)), << "Query" >>)
      [] o.kind = "scanErr" ->
            Reply(respond(StatusInternalServerError, ErrBody(o.msg)), << "Query" >>)
      [] o.kind = "streamErr" ->
            Reply(respond(StatusBadGateway, ErrBody(o.msg)), << "Query" >>)
      [] OTHER ->
            Reply(respond(StatusOK, [rows |-> ResultRows, count |-> Len(ResultRows)]),
                  << "Query" >>)

\* Proxy.exec: decode failure 400, then conn.Exec once.
dsExec(body, out) ==
    LET o == WithTimeout(out) IN
    IF DecodeFails(body)
    THEN Reply(respond(StatusBadRequest, ErrBody("json: " \o body.json)), << >>)
    ELSE CASE o.kind = "err" ->
                 Reply(respond(StatusBadGateway, ErrBody(o.msg)), << "Exec" >>)
           [] OTHER -> Reply(respond(StatusOK, [status |-> "ok"]), << "Exec" >>)

\* cols := req.Columns; with none given the keys of req.Rows[0] are appended
\* in the order the map range yields them.
insertCols(body, ord) ==
    IF Len(body.columns) = 0 /\ body.rows > 0 THEN body.columns \o ord ELSE body.columns

\* Mutant: a column the row has no key for gets no value.
insertValsSkipMissing(cols, row) ==
    LET present == SelectSeq(cols, LAMBDA c : c \in DOMAIN row) IN
    [k \in 1..Len(present) |-> row[present[k]]]

\* vals[i] = row[col] for i, col := range cols: a missing key reads as nil.
insertVals(cols, row) ==
    [k \in 1..Len(cols) |-> IF cols[k] \in DOMAIN row THEN row[cols[k]] ELSE Null]

\* batch.Append called for the first n rows.
Appends(n) == [k \in 1..n |-> "Append"]

\* Mutant: after a failed Append the rows appended so far are sent.
dsInsertSendsAppended(body, out) ==
    LET o == WithTimeout(out) IN
    IF DecodeFails(body)
    THEN Reply(respond(StatusBadRequest, ErrBody("json: " \o body.json)), << >>)
    ELSE IF body.rows = 0
    THEN Reply(respond(StatusBadRequest, ErrBody("no rows")), << >>)
    ELSE CASE o.kind = "err" ->
                 Reply(respond(StatusBadGateway, ErrBody(o.msg)), << "PrepareBatch" >>)
           [] o.kind = "appendErr" ->
                 Reply(respond(StatusBadRequest, ErrBody("row append: " \o o.msg)),
                       << "PrepareBatch" >> \o Appends(o.at) \o << "Send" >>)
           [] o.kind = "sendErr" ->
                 Reply(respond(StatusBadGateway, ErrBody(o.msg)),
                       << "PrepareBatch" >> \o Appends(body.rows) \o << "Send" >>)
           [] OTHER ->
                 Reply(respond(StatusOK, [status |-> "ok", inserted |-> body.rows]),
                       << "PrepareBatch" >> \o Appends(body.rows) \o << "Send" >>)

\* Proxy.insert: decode failure 400, no rows 400, PrepareBatch (502 on error),
\* Append per row (400 "row append" on the first error), Send (502 on error).
dsInsert(body, out) ==
    LET o == WithTimeout(out) IN
    IF DecodeFails(body)
    THEN Reply(respond(StatusBadRequest, ErrBody("json: " \o body.json)), << >>)
    ELSE IF body.rows = 0
    THEN Reply(respond(StatusBadRequest, ErrBody("no rows")), << >>)
    ELSE CASE o.kind = "err" ->
                 Reply(respond(StatusBadGateway, ErrBody(o.msg)), << "PrepareBatch" >>)
           [] o.kind = "appendErr" ->
                 Reply(respond(StatusBadRequest, ErrBody("row append: " \o o.msg)),
                       << "PrepareBatch" >> \o Appends(o.at))
           [] o.kind = "sendErr" ->
                 Reply(respond(StatusBadGateway, ErrBody(o.msg)),
                       << "PrepareBatch" >> \o Appends(body.rows) \o << "Send" >>)
           [] OTHER ->
                 Reply(respond(StatusOK, [status |-> "ok", inserted |-> body.rows]),
                       << "PrepareBatch" >> \o Appends(body.rows) \o << "Send" >>)

\* Proxy.tables: the decode error is ignored; conn.Query; a row whose Scan
\* fails is skipped; rows.Err is not read.
dsTables(body, out) ==
    LET o == WithTimeout(out) IN
    CASE o.kind = "err" ->
            Reply(respond(StatusBadGateway, ErrBody(o.msg)), << "Query" >>)
      [] o.kind \in {"scanErr", "streamErr"} ->
            Reply(respond(StatusOK, [database |-> "db", tables |-> PartialRows]), << "Query" >>)
      [] OTHER ->
            Reply(respond(StatusOK, [database |-> "db", tables |-> ResultRows]), << "Query" >>)

\* Proxy.health: conn.Ping, then the server version.
dsHealth(out) ==
    LET o == WithTimeout(out) IN
    CASE o.kind = "err" ->
            Reply(respond(StatusServiceUnavailable, ErrBody(o.msg)), << "Ping" >>)
      [] OTHER ->
            Reply(respond(StatusOK, [status |-> "ok", service |-> "hanzo-datastore",
                                     native |-> TRUE, version |-> "ver"]), << "Ping" >>)

dsRoute(path, body) ==
    CASE path = "/health" -> "health"
      [] path = "/query" -> "query"
      [] path = "/exec" -> "exec"
      [] path = "/insert" -> "insert"
      [] path = "/tables" -> "tables"
      [] OTHER -> IF body.len > 0 THEN "query" ELSE "notfound"

dsHandle(path, body, out) ==
    LET op == dsRoute(path, body) IN
    CASE op = "health" -> dsHealth(out)
      [] op = "query" -> dsQuery(body, out)
      [] op = "exec" -> dsExec(body, out)
      [] op = "insert" -> dsInsert(body, out)
      [] op = "tables" -> dsTables(body, out)
      [] OTHER -> Reply(respond(StatusNotFound, ErrBody("unknown: " \o path)), << >>)

\* ----------------------------------------------------------- document adapter

\* find: decode failure 400, coll.Find, cursor.All.
docFind(body, out) ==
    IF DecodeFails(body)
    THEN Reply(respond(StatusBadRequest, ErrBody("json: " \o body.json)), << >>)
    ELSE CASE out.kind = "hang" -> Blocked(<< "Find" >>)
           [] out.kind \in {"err", "cursorErr"} ->
                 Reply(respond(StatusInternalServerError, ErrBody(out.msg)), << "Find" >>)
           [] OTHER ->
                 Reply(respond(StatusOK, [documents |-> ResultRows, count |-> Len(ResultRows)]),
                       << "Find" >>)

\* Mutant: the documents are inserted one call each.
docInsertOneByOne(body, out) ==
    IF DecodeFails(body)
    THEN Reply(respond(StatusBadRequest, ErrBody("json: " \o body.json)), << >>)
    ELSE CASE out.kind = "hang" -> Blocked(<< "InsertMany" >>)
           [] out.kind = "err" ->
                 Reply(respond(StatusInternalServerError, ErrBody(out.msg)), << "InsertMany" >>)
           [] OTHER ->
                 Reply(respond(StatusOK, [inserted_ids |-> "ids", count |-> body.rows]),
                       [k \in 1..body.rows |-> "InsertMany"])

\* insert: decode failure 400, coll.InsertMany once with all documents.
docInsert(body, out) ==
    IF DecodeFails(body)
    THEN Reply(respond(StatusBadRequest, ErrBody("json: " \o body.json)), << >>)
    ELSE CASE out.kind = "hang" -> Blocked(<< "InsertMany" >>)
           [] out.kind = "err" ->
                 Reply(respond(StatusInternalServerError, ErrBody(out.msg)), << "InsertMany" >>)
           [] OTHER ->
                 Reply(respond(StatusOK, [inserted_ids |-> "ids", count |-> body.rows]),
                       << "InsertMany" >>)

\* update: decode failure 400, coll.UpdateMany once.
docUpdate(body, out) ==
    IF DecodeFails(body)
    THEN Reply(respond(StatusBadRequest, ErrBody("json: " \o body.json)), << >>)
    ELSE CASE out.kind = "hang" -> Blocked(<< "UpdateMany" >>)
           [] out.kind = "err" ->
                 Reply(respond(StatusInternalServerError, ErrBody(out.msg)), << "UpdateMany" >>)
           [] OTHER ->
                 Reply(respond(StatusOK, [matched_count |-> 1, modified_count |-> 1]),
                       << "UpdateMany" >>)

\* del: decode failure 400, coll.DeleteMany once.
docDel(body, out) ==
    IF DecodeFails(body)
    THEN Reply(respond(StatusBadRequest, ErrBody("json: " \o body.json)), << >>)
    ELSE CASE out.kind = "hang" -> Blocked(<< "DeleteMany" >>)
           [] out.kind = "err" ->
                 Reply(respond(StatusInternalServerError, ErrBody(out.msg)), << "DeleteMany" >>)
           [] OTHER -> Reply(respond(StatusOK, [deleted_count |-> 1]), << "DeleteMany" >>)

\* health: client.Ping.
docHealth(out) ==
    CASE out.kind = "hang" -> Blocked(<< "Ping" >>)
      [] out.kind = "err" ->
            Reply(respond(StatusServiceUnavailable, ErrBody(out.msg)), << "Ping" >>)
      [] OTHER ->
            Reply(respond(StatusOK, [status |-> "ok", service |-> "hanzo-documentdb"]),
                  << "Ping" >>)

\* handle: the default case answers 404 whatever the body.
docRoute(path, body) ==
    CASE path = "/find" -> "find"
      [] path = "/insert" -> "insert"
      [] path = "/update" -> "update"
      [] path = "/delete" -> "delete"
      [] path = "/health" -> "health"
      [] OTHER -> "notfound"

docHandle(path, body, out) ==
    LET op == docRoute(path, body) IN
    CASE op = "find" -> docFind(body, out)
      [] op = "insert" -> docInsert(body, out)
      [] op = "update" -> docUpdate(body, out)
      [] op = "delete" -> docDel(body, out)
      [] op = "health" -> docHealth(out)
      [] OTHER -> Reply(respond(StatusNotFound, ErrBody("unknown path: " \o path)), << >>)

\* ------------------------------------------------------------------ dispatcher

Route(a, path, body) ==
    CASE a = "sql" -> sqlRoute(path, body)
      [] a = "kv" -> kvRoute(path, body)
      [] a = "dshttp" -> dsHttpRoute(path, body)
      [] a = "dsnative" -> dsRoute(path, body)
      [] OTHER -> docRoute(path, body)

\* The closure given to node.Handle: return p.handle(ctx, msg), nil.
handle(a, path, body, out) ==
    CASE a = "sql" -> sqlHandle(path, body, out)
      [] a = "kv" -> kvHandle(path, body, out)
      [] a = "dshttp" -> dsHttpHandle(path, body, out)
      [] a = "dsnative" -> dsHandle(path, body, out)
      [] OTHER -> docHandle(path, body, out)

\* The arguments of the backend calls cs made by operation op for request rq:
\* statement and args of pool.Query/Exec, the command line of client.Do, the
\* column list of PrepareBatch with the value tuples of the Append calls, the
\* NDJSON lines of the insert POST, the documents of InsertMany.
CallArgs(a, op, rq, cs) ==
    CASE cs = << >> -> NoArgs
      [] a = "sql" /\ op \in {"query", "exec"} ->
            [NoArgs EXCEPT !.stmt = sqlStatement(rq.body), !.params = sqlArgs(rq.body)]
      [] a = "kv" /\ op = "cmd" ->
            [NoArgs EXCEPT !.cmd = Head(kvCmdLine(rq.body)),
                           !.params = Tail(kvCmdLine(rq.body))]
      [] a = "dsnative" /\ op = "insert" ->
            LET cols == insertCols(rq.body, rq.ord) IN
            [NoArgs EXCEPT !.cols = cols,
                           !.batch = [k \in 1..Count(cs, "Append") |->
                                         insertVals(cols, rq.body.items[k])]]
      [] a \in {"dshttp", "doc"} /\ op = "insert" ->
            [NoArgs EXCEPT !.batch = rq.body.items]
      [] OTHER -> NoArgs

\* The transport delivers an envelope to the registered handler; the backend's
\* behaviour towards this request is drawn with it.
Dispatch ==
    /\ listening
    /\ handlerRegistered
    /\ pc # "exit"
    /\ reqPc \in {"idle", "done", "panicked"}
    /\ served < MaxRequests
    /\ \E path \in Paths(adapter), body \in Bodies :
          \E out \in BackendOutcomes(adapter, Route(adapter, path, body), body),
             ord \in MapOrders(adapter, Route(adapter, path, body), body) :
             req' = [path |-> path, body |-> body, out |-> out, ord |-> ord]
    /\ reqPc' = "running"
    /\ reqOp' = ""
    /\ resp' = NoResp
    /\ calls' = << >>
    /\ args' = NoArgs
    /\ served' = served + 1
    /\ UNCHANGED << concVars, launch, adapter, pc, bootVars, openHandles, handlerRegistered,
                    listening, sigPending, sigAt, exitCode, abandoned >>

\* A batch the handler obtained from PrepareBatch (the call returned no
\* error) and returned without calling Send or Abort on it. The batch holds a
\* connection of the pool; only Send and Abort are the handler's ways to end it.
BatchesLeft(cs, out) ==
    IF /\ Count(cs, "PrepareBatch") > 0
       /\ WithTimeout(out).kind # "err"
       /\ Count(cs, "Send") = 0
       /\ Count(cs, "Abort") = 0
    THEN 1 ELSE 0

\* The handler runs: it returns a response envelope, or waits forever on a
\* backend call, or panics. A panic is either recovered by the transport (the
\* request gets no response from the handler) or ends the process (exit 2).
Handle ==
    /\ reqPc = "running"
    /\ pc # "exit"
    /\ LET r == handle(adapter, req.path, req.body, req.out) IN
       /\ reqOp' = Route(adapter, req.path, req.body)
       /\ resp' = r.resp
       /\ calls' = r.calls
       /\ args' = CallArgs(adapter, Route(adapter, req.path, req.body), req, r.calls)
       /\ abandoned' = abandoned + BatchesLeft(r.calls, req.out)
       /\ reqPc' = CASE r.kind = "resp" -> "done"
                     [] r.kind = "blocked" -> "blocked"
                     [] OTHER -> "panicked"
       /\ IF r.kind = "panic"
          THEN \E recovered \in BOOLEAN :
                  IF recovered
                  THEN UNCHANGED << pc, exitCode, listening >>
                  ELSE pc' = "exit" /\ exitCode' = 2 /\ listening' = FALSE
          ELSE UNCHANGED << pc, exitCode, listening >>
    /\ UNCHANGED << concVars, launch, adapter, bootVars, openHandles, handlerRegistered,
                    sigPending, sigAt, req, served >>

\* --------------------------------------------------------------- specification

Next ==
    \/ MainSwitch
    \/ NewAttempt
    \/ NewPing
    \/ NewRegister
    \/ NewStart
    \/ MainFail
    \/ Signal
    \/ MainWait
    \/ StopNode
    \/ StopHandle
    \/ Dispatch
    \/ Handle

Spec == Init /\ [][Next]_vars

\* ------------------------------------------------- concurrent request handling

\* The transport may run the handler for several requests at once.
MaxWorkers == 2
Workers == 1..MaxWorkers

\* The adapters whose requests carry a database field, and their operations
\* that decode it.
DbAdapters == {"dshttp", "dsnative", "doc"}
DbOps(a) ==
    CASE a = "dshttp" -> {"query", "insert"}
      [] a = "dsnative" -> {"query", "exec", "insert", "tables"}
      [] a = "doc" -> {"find", "insert", "update", "delete"}
      [] OTHER -> {}

\* req.Database: absent, or naming another database.
Overrides == {"", "other"}

\* The adapter a launch ends up serving with.
ServingAdapter(l) == IF l.host = "embed" THEN "doc" ELSE ModeAdapter(l)

\* The database the handler's backend call works on. documentdb:
\* db := p.db; if req.Database != "" { db = req.Database }. HTTP datastore:
\* if req.Database == "" { req.Database = p.database }. Native datastore:
\* query and exec run on the connection's database whatever req.Database
\* says, insert qualifies the table when req.Database is set and differs,
\* tables takes req.Database or else p.database.
requestDb(a, o, p, override) ==
    IF a = "dsnative" /\ o \in {"query", "exec"} THEN p.database
    ELSE IF override # "" THEN override
    ELSE p.database

\* Mutant: the handler stores the request's database in the Proxy.
proxyAfterHandlingStores(p, override) ==
    [p EXCEPT !.database = IF override # "" THEN override ELSE @]

\* The Proxy's fields after a handler chose its database: no handler assigns
\* to a field of p; the override lives in the handler's own req or db.
proxyAfterHandling(p, override) == p

\* The state once New has returned and main waits for a signal.
InitConc ==
    /\ launch \in {l \in Launches : ServingAdapter(l) \in DbAdapters}
    /\ adapter = ServingAdapter(launch)
    /\ pc = "serving"
    /\ i = 0
    /\ err = NoErr
    /\ attempts = 0
    /\ readyAt = 0
    /\ logged = {}
    /\ openHandles = IF ClosesOnStop(adapter) THEN 1 ELSE 0
    /\ handlerRegistered = TRUE
    /\ listening = TRUE
    /\ sigPending = FALSE
    /\ sigAt = "none"
    /\ exitCode = -1
    /\ req = NoReq
    /\ reqOp = ""
    /\ reqPc = "idle"
    /\ resp = NoResp
    /\ calls = << >>
    /\ args = NoArgs
    /\ served = 0
    /\ abandoned = 0
    /\ proxy = NewProxy(adapter)
    /\ conc = [w \in Workers |-> Idle]

concFrame ==
    UNCHANGED << launch, adapter, pc, bootVars, openHandles, handlerRegistered,
                 listening, sigPending, sigAt, exitCode,
                 req, reqOp, reqPc, resp, calls, args, abandoned >>

\* The transport hands an envelope to a free worker, which routes it and
\* decodes the body into its own request struct.
ConcDispatch ==
    /\ listening
    /\ handlerRegistered
    /\ served < MaxRequests
    /\ \E w \in Workers, o \in DbOps(adapter), override \in Overrides :
          /\ conc[w].pc = "idle"
          /\ conc' = [conc EXCEPT ![w] = [Idle EXCEPT !.pc = "decoded", !.op = o,
                                                       !.override = override]]
    /\ served' = served + 1
    /\ UNCHANGED proxy
    /\ concFrame

\* The handler chooses the database for this request.
ConcSelectDb ==
    /\ \E w \in Workers :
          /\ conc[w].pc = "decoded"
          /\ conc' = [conc EXCEPT ![w].pc = "selected",
                                   ![w].db = requestDb(adapter, conc[w].op, proxy,
                                                       conc[w].override)]
          /\ proxy' = proxyAfterHandling(proxy, conc[w].override)
    /\ UNCHANGED served
    /\ concFrame

\* The handler calls the backend through p's handle on the chosen database.
ConcCall ==
    /\ \E w \in Workers :
          /\ conc[w].pc = "selected"
          /\ conc' = [conc EXCEPT ![w].pc = "called", ![w].handle = proxy.handle]
    /\ UNCHANGED << proxy, served >>
    /\ concFrame

\* The handler returns its response; its locals are gone.
ConcReturn ==
    /\ \E w \in Workers :
          /\ conc[w].pc = "called"
          /\ conc' = [conc EXCEPT ![w] = Idle]
    /\ UNCHANGED << proxy, served >>
    /\ concFrame

NextConc ==
    \/ ConcDispatch
    \/ ConcSelectDb
    \/ ConcCall
    \/ ConcReturn

SpecConc == InitConc /\ [][NextConc]_vars

\* ---------------------------------------------------------------- properties

\* New's probe phase is over: the loop was left, by break, exhaustion or return.
BootOver == adapter # "none" /\ pc \notin {"main", "retry"}

\* The handler of the current request has ended (returned, or will never return).
Finished == reqPc \in {"done", "blocked", "panicked"}

\* C1: in every adapter's New, when the backend probe fails on every attempt,
\* exactly 30 attempts are made, never more, and New returns an error so that
\* the bridge never starts serving.
C1_ExhaustionAfterCeiling ==
    /\ attempts <= RetryCeiling
    /\ (BootOver /\ readyAt = NeverReady) =>
          /\ attempts = RetryCeiling
          /\ err # NoErr
          /\ ~handlerRegistered
          /\ ~listening

\* C2: in every adapter's New, when the probe fails on attempts 1..k-1 and
\* succeeds on attempt k (1 <= k <= 30), the probe phase ends with a ready
\* handle after exactly k attempts.
C2_ReadyAfterKAttempts ==
    (BootOver /\ readyAt \in 1..RetryCeiling) =>
       /\ attempts = readyAt
       /\ err = NoErr
       /\ pc # "newFailed"

C4_OneResponsePerEnvelope ==
    /\ reqPc # "panicked"
    /\ (reqPc = "done" => resp.status > 0)

\* C5: every dispatched request is answered even if the backend never replies:
\* no handler waits forever on a backend call.
C5_NoHandlerWaitsForever == reqPc # "blocked"

\* The default operation the dispatcher falls back to.
DefaultOp(a) == IF a = "kv" THEN "cmd" ELSE "query"

\* C6: in every adapter, a request whose path is empty or no route of the
\* adapter and whose body is non-empty is dispatched to the default operation
\* and is never answered 404.
C6_FallbackToDefault ==
    (Finished /\ req.path \notin Routes(adapter) /\ req.body.len > 0) =>
       /\ reqOp = DefaultOp(adapter)
       /\ (reqPc = "done" => resp.status # StatusNotFound)

\* The operation a route names.
OpOfRoute(path) ==
    CASE path = "/query" -> "query"
      [] path = "/exec" -> "exec"
      [] path = "/health" -> "health"
      [] path = "/get" -> "get"
      [] path = "/set" -> "set"
      [] path = "/mget" -> "mget"
      [] path = "/cmd" -> "cmd"
      [] path = "/insert" -> "insert"
      [] path = "/tables" -> "tables"
      [] path = "/find" -> "find"
      [] path = "/update" -> "update"
      [] path = "/delete" -> "delete"
      [] OTHER -> "none"

\* The backend calls that belong to an operation.
CallsOf(o) ==
    CASE o = "query" -> {"Query", "PostQuery"}
      [] o = "exec" -> {"Exec"}
      [] o = "health" -> {"Ping", "GetPing"}
      [] o = "get" -> {"Get"}
      [] o = "set" -> {"Set"}
      [] o = "mget" -> {"MGet"}
      [] o = "cmd" -> {"Do"}
      [] o = "insert" -> {"PrepareBatch", "Append", "Send", "PostInsert", "InsertMany"}
      [] o = "tables" -> {"Query"}
      [] o = "find" -> {"Find"}
      [] o = "update" -> {"UpdateMany"}
      [] o = "delete" -> {"DeleteMany"}
      [] OTHER -> {}

\* C7: routing is by exact string equality: a path equal to a route of the
\* adapter is dispatched to that route's operation whatever the body; a path
\* equal to no route with an empty body is answered 404 with an error body and
\* no backend call.
C7_ExactRouting ==
    /\ (Finished /\ req.path \in Routes(adapter)) =>
          /\ reqOp = OpOfRoute(req.path)
          /\ \A k \in 1..Len(calls) : calls[k] \in CallsOf(OpOfRoute(req.path))
    /\ (Finished /\ req.path \notin Routes(adapter) /\ req.body.len = 0) =>
          /\ reqPc = "done"
          /\ resp.status = StatusNotFound
          /\ "error" \in DOMAIN resp.body
          /\ calls = << >>

C7_Witness ==
    /\ reqPc = "done"
    /\ adapter = "sql"
    /\ req.path = "/Query"
    /\ req.body = BodyEmpty
    /\ resp.status = StatusNotFound

\* C8: a key-value get of a key the backend reports as not found is answered
\* 200 {"value": null}; a backend error on get is answered with an error
\* status and an error body; a found key is never answered null.
C8_GetNotFoundIsNull ==
    (adapter = "kv" /\ reqPc = "done" /\ reqOp = "get") =>
       /\ (req.out.kind = "nil") =>
             (resp.status = StatusOK /\ resp.body = [value |-> "null"])
       /\ (req.out.kind = "err") =>
             (resp.status >= StatusInternalServerError /\ "error" \in DOMAIN resp.body)
       /\ (req.out.kind = "ok") =>
             (resp.status = StatusOK /\ resp.body # [value |-> "null"])

C8_Witness ==
    /\ adapter = "kv"
    /\ reqPc = "done"
    /\ req.path = "/get"
    /\ req.out.kind = "nil"
    /\ resp.status = StatusOK

\* The backend calls that write.
WriteCalls == {"Set", "Exec", "Send", "PostInsert", "InsertMany", "UpdateMany", "DeleteMany"}

\* C9: while handling one request each backend write operation is invoked at
\* most once, whether it succeeds or fails.
C9_WriteAtMostOnce ==
    \A c \in WriteCalls : Count(calls, c) <= 1

C9_Witness ==
    /\ adapter = "sql"
    /\ reqPc = "done"
    /\ reqOp = "exec"
    /\ req.out.kind = "err"
    /\ calls = << "Exec" >>
    /\ resp.status = StatusInternalServerError

\* The operations C10 is about, and the outcomes in which a backend call of
\* theirs returns a driver error or a rejection (a row stream that breaks off
\* midway is not among them: it reports no error to the handler that does not
\* read rows.Err).
C10_Ops == {"query", "exec", "insert", "set", "mget", "cmd", "find", "update", "delete"}
BackendFailed(out) ==
    out.kind \in {"err", "reject", "sendErr", "scanErr", "cursorErr"}

\* C10: whenever a backend operation invoked for a query, exec, insert, set,
\* mget, cmd, find, update or delete request fails, the response status is 500
\* or 502 and the body is {"error": <backend message>}, in every adapter.
C10_BackendErrorStatus ==
    (reqPc = "done" /\ reqOp \in C10_Ops /\ calls # << >> /\ BackendFailed(req.out)) =>
       /\ resp.status \in {StatusInternalServerError, StatusBadGateway}
       /\ resp.body = ErrBody(req.out.msg)

\* C11: in the native columnar insert, when appending a row to the prepared
\* batch fails, the response is 400 with an error naming the row-append step,
\* the batch is never sent, and so no row of the request (the rows appended
\* before the failing one included) reaches the backend.
C11_AppendFailureAbortsBatch ==
    (adapter = "dsnative" /\ Finished /\ reqOp = "insert" /\ req.out.kind = "appendErr") =>
       /\ reqPc = "done"
       /\ resp.status = StatusBadRequest
       /\ resp.body = [error |-> "row append: " \o req.out.msg]
       /\ Count(calls, "Append") = req.out.at
       /\ Count(calls, "Send") = 0

C11_Witness ==
    /\ adapter = "dsnative"
    /\ reqPc = "done"
    /\ req.path = "/insert"
    /\ req.out.kind = "appendErr"
    /\ req.out.at = 2
    /\ Count(calls, "Append") = 2
    /\ resp.status = StatusBadRequest

\* The call that hands the items of an insert to the backend.
InsertCall(a) ==
    CASE a = "dsnative" -> "Send"
      [] a = "dshttp" -> "PostInsert"
      [] OTHER -> "InsertMany"

\* C12: whenever a bulk insert of N rows (columnar, either variant) or N
\* documents (document adapter) is answered 200, the reported inserted/count
\* value is N and all N items were handed to the backend in one batch/request.
C12_InsertReportsAllItems ==
    (adapter \in {"dshttp", "dsnative", "doc"} /\ reqPc = "done" /\ reqOp = "insert"
        /\ resp.status = StatusOK) =>
       /\ IF adapter = "doc" THEN resp.body.count = Len(req.body.items)
                             ELSE resp.body.inserted = Len(req.body.items)
       /\ Count(calls, InsertCall(adapter)) = 1
       /\ Len(args.batch) = Len(req.body.items)
       /\ adapter = "dsnative" =>
             /\ Count(calls, "PrepareBatch") = 1
             /\ Count(calls, "Append") = Len(req.body.items)
       /\ adapter # "dsnative" => args.batch = req.body.items

C12_Witness ==
    /\ adapter = "doc"
    /\ reqPc = "done"
    /\ reqOp = "insert"
    /\ resp.status = StatusOK
    /\ resp.body.count = 2
    /\ calls = << "InsertMany" >>
    /\ args.batch = Items

\* The set of the elements of a sequence.
Range(seq) == {seq[k] : k \in DOMAIN seq}

\* C13: in the native columnar insert the column list is the request's
\* explicit list when given, otherwise the key set of the first row; that one
\* list serves every row: each row is appended with one value per column in
\* column order (the row's value for the key, null when the key is missing),
\* and keys outside the list are dropped.
C13_OneColumnListForEveryRow ==
    (adapter = "dsnative" /\ Finished /\ reqOp = "insert" /\ calls # << >>) =>
       /\ IF req.body.columns # << >>
          THEN args.cols = req.body.columns
          ELSE /\ Range(args.cols) = DOMAIN req.body.items[1]
               /\ Len(args.cols) = Cardinality(DOMAIN req.body.items[1])
       /\ \A k \in DOMAIN args.batch :
             /\ Len(args.batch[k]) = Len(args.cols)
             /\ \A j \in DOMAIN args.cols :
                   args.batch[k][j] =
                      IF args.cols[j] \in DOMAIN req.body.items[k]
                      THEN req.body.items[k][args.cols[j]]
                      ELSE Null

C13_Witness ==
    /\ adapter = "dsnative"
    /\ reqPc = "done"
    /\ reqOp = "insert"
    /\ req.body = BodyJson
    /\ resp.status = StatusOK
    /\ args.cols = << "name", "id" >>
    /\ args.batch = << << "a", "1" >>, << Null, "2" >> >>

\* C14: for relational query and exec, whenever decoding the body into
\* {sql, args} reports an error, the statement sent to the backend is the whole
\* raw body and the argument list sent is empty, also when the args field
\* decoded before a type error on another field.
C14_RawStatementHasNoArgs ==
    (adapter = "sql" /\ Finished /\ reqOp \in {"query", "exec"} /\ calls # << >>
        /\ DecodeFails(req.body)) =>
       /\ args.stmt = req.body.text
       /\ args.params = << >>

\* A piece of a body that is not whitespace.
NonSpace(piece) == piece \notin Whitespace

\* C15: for key-value cmd, a body that does not decode as JSON {cmd, args} is
\* split on whitespace; the first token is sent as the command name and the
\* other tokens as its arguments in their order; a body without any token is
\* answered 400 and no backend command is issued.
C15_CommandLineTokens ==
    (adapter = "kv" /\ Finished /\ reqOp = "cmd" /\ DecodeFails(req.body)) =>
       LET tokens == SelectSeq(req.body.text, NonSpace) IN
       IF tokens = << >>
       THEN /\ reqPc = "done"
            /\ resp.status = StatusBadRequest
            /\ calls = << >>
       ELSE /\ calls = << "Do" >>
            /\ args.cmd = tokens[1]
            /\ args.params = Tail(tokens)

C15_Witness ==
    /\ adapter = "kv"
    /\ reqPc = "done"
    /\ req.path = "/cmd"
    /\ req.body = BodyTypeErrArgs
    /\ args.cmd = "{\"sql\":5,"
    /\ args.params = << "\"args\":[\"a\"]}" >>

\* The operations whose body has no raw-string fallback.
NoFallbackOps(a) ==
    CASE a = "kv" -> {"set", "mget"}
      [] a = "dshttp" -> {"insert"}
      [] a = "dsnative" -> {"insert", "exec", "tables"}
      [] a = "doc" -> {"find", "insert", "update", "delete"}
      [] OTHER -> {}

\* C16: for every operation without raw-string fallback (key-value set and
\* mget; columnar insert, exec and tables; document find, insert, update and
\* delete) a body that fails to decode is answered 400 with an error body and
\* no backend operation is invoked.
C16_DecodeFailureIsBadRequest ==
    (Finished /\ reqOp \in NoFallbackOps(adapter) /\ DecodeFails(req.body)) =>
       /\ reqPc = "done"
       /\ resp.status = StatusBadRequest
       /\ "error" \in DOMAIN resp.body
       /\ calls = << >>

\* The response body is a JSON object with an "error" key (a raw NDJSON body
\* is the backend's lines of rows, not such an object).
HasErrorKey(r) == r.headers = "application/json" /\ "error" \in DOMAIN r.body

\* C17: in every adapter and on every route, a response whose status is not
\* 200 carries a JSON object body with an "error" key, and a response with
\* status 200 carries no "error" key.
C17_ErrorKeyIffNot200 ==
    reqPc = "done" => (resp.status # StatusOK <=> HasErrorKey(resp))

C17_Witness ==
    /\ adapter = "dshttp"
    /\ reqPc = "done"
    /\ reqOp = "query"
    /\ req.out.kind = "reject"
    /\ resp.status = StatusNotFound
    /\ resp.body = [error |-> req.out.msg]

\* C18: on every execution path (bootstrap exhaustion, listener start
\* failure, signal-triggered shutdown) every connection handle that was
\* opened, those of failed bootstrap attempts included, is released exactly
\* once before the process ends, and the handle used for serving is released
\* only by Stop.
C18_HandlesReleasedOnce ==
    /\ openHandles \in {0, 1}
    /\ pc \in {"newFailed", "exit"} => openHandles = 0
    /\ (pc \in {"register", "listen", "serving", "stopNode", "stopHandle"}
          /\ adapter # "dshttp") => openHandles = 1

C18_Witness ==
    /\ adapter = "sql"
    /\ pc = "exit"
    /\ exitCode = 1
    /\ err = "ping"
    /\ ~handlerRegistered
    /\ openHandles = 0

\* The column names of the result, as a set.
ColumnNames == {FieldDescriptions[k] : k \in DOMAIN FieldDescriptions}

\* C19: for a relational query answered 200, the reported count equals the
\* number of rows the backend produced for the statement, the rows list has
\* that many entries, and the key set of each row is the set of the result's
\* column names.
C19_QueryCountIsBackendRows ==
    (adapter = "sql" /\ reqPc = "done" /\ reqOp = "query" /\ resp.status = StatusOK) =>
       /\ resp.body.count = Len(BackendRows)
       /\ Len(resp.body.rows) = resp.body.count
       /\ \A k \in DOMAIN resp.body.rows : DOMAIN resp.body.rows[k] = ColumnNames

\* Startup has failed: the mode is unknown or New has returned an error.
StartupFailed ==
    \/ launch.host = "main" /\ ModeAdapter(launch) = "none" /\ pc = "exit"
    \/ pc = "newFailed"
    \/ pc = "exit" /\ err # NoErr
    \/ pc = "exit" /\ ~handlerRegistered

\* C20: the process exits with code 1 exactly when startup fails (unknown
\* mode, bootstrap exhaustion, listener start failure) and then has served no
\* request; after a successful startup it keeps serving until SIGINT or
\* SIGTERM arrives, then calls Stop once and exits with code 0.
C20_ExitCodes ==
    launch.host = "main" =>
       /\ pc = "exit" => exitCode \in {0, 1}
       /\ exitCode = 1 => (served = 0 /\ ~listening)
       /\ (pc = "exit" /\ StartupFailed) => exitCode = 1
       /\ exitCode = 0 =>
             (pc = "exit" /\ err = NoErr /\ handlerRegistered /\ ~listening /\ openHandles = 0)
       /\ listening => pc \in {"serving", "stopNode"}
       /\ pc \in {"stopNode", "stopHandle"} => exitCode = -1

\* The four backend kinds and the kind each adapter bridges.
Kinds == {"relational", "key-value", "columnar", "document"}
KindOf(a) ==
    CASE a = "sql" -> "relational"
      [] a = "kv" -> "key-value"
      [] a \in {"dshttp", "dsnative"} -> "columnar"
      [] a = "doc" -> "document"
      [] OTHER -> "none"

\* The mode value naming each kind: the adapter packages' names.
ModeKind(m) ==
    CASE m = "sql" -> "relational"
      [] m = "kv" -> "key-value"
      [] m = "datastore" -> "columnar"
      [] m = "documentdb" -> "document"
      [] OTHER -> "none"

\* C21: each of the four backend kinds is selectable through the mode
\* selector: started with the mode value of a kind, main bootstraps that
\* kind's adapter instead of exiting with the unknown-mode error.
C21_EveryKindSelectable ==
    (launch.host = "main" /\ ModeKind(launch.mode) \in Kinds /\ pc # "main") =>
       /\ KindOf(adapter) = ModeKind(launch.mode)
       /\ ~(pc = "exit" /\ exitCode = 1 /\ attempts = 0 /\ ~handlerRegistered)

\* The other transport variant of the columnar adapter.
OtherVariant(a) == IF a = "dshttp" THEN "dsnative" ELSE "dshttp"

\* The routes both variants offer, and the paths neither matches.
SharedPaths == {"/query", "/insert", "/health"} \cup
               (Paths("dsnative") \ (Routes("dsnative") \cup Routes("dshttp")))

\* C22: the HTTP and the native columnar variant implement the same contract:
\* for every request on a route both offer (query, insert, health, the
\* unmatched-path fallback) and the same backend outcome they return the same
\* status and the same response body shape.
C22_VariantsAgree ==
    (adapter \in {"dshttp", "dsnative"} /\ Finished /\ req.path \in SharedPaths
        /\ req.out \in Common) =>
       LET other == handle(OtherVariant(adapter), req.path, req.body, req.out) IN
       /\ (reqPc = "done") <=> (other.kind = "resp")
       /\ reqPc = "done" =>
             /\ other.resp.status = resp.status
             /\ other.resp.headers = resp.headers
             /\ DOMAIN other.resp.body = DOMAIN resp.body

\* The reads whose rows arrive as a stream.
StreamedReads == { << "sql", "query" >>, << "dsnative", "query" >>, << "dsnative", "tables" >> }

\* C24: if the backend's row stream fails after some rows have been
\* delivered, relational query, native columnar query and native columnar
\* tables each return an error status with the driver's message, never a 200
\* with the rows read before the failure.
C24_StreamFailureIsError ==
    (Finished /\ << adapter, reqOp >> \in StreamedReads /\ req.out.kind = "streamErr") =>
       /\ reqPc = "done"
       /\ resp.status \in {StatusInternalServerError, StatusBadGateway}
       /\ resp.body = [error |-> req.out.msg]

\* C25: in every adapter the health route answers 200 exactly when the
\* backend liveness probe succeeds and 503 with an error body otherwise; a
\* backend answering the probe with a failure indication is never reported
\* healthy, neither at bootstrap nor on /health.
C25_HealthIffProbeSucceeds ==
    /\ (reqPc = "done" /\ reqOp = "health") =>
          /\ (resp.status = StatusOK) <=> (req.out.kind = "ok")
          /\ resp.status # StatusOK =>
                (resp.status = StatusServiceUnavailable /\ "error" \in DOMAIN resp.body)
    /\ (pc \in {"register", "listen"} /\ adapter # "none") => Reachable(attempts)

\* C28: in every adapter's Stop the transport node is stopped before the
\* connection handle is released: when Stop comes to release the handle the
\* node no longer listens, and a request can be dispatched to an adapter
\* holding a handle only while that handle is open.
C28_NodeStoppedBeforeRelease ==
    /\ pc = "stopHandle" => ~listening
    /\ (ENABLED Dispatch /\ ClosesOnStop(adapter)) => openHandles = 1

C28_Witness ==
    /\ pc = "stopHandle"
    /\ ClosesOnStop(adapter)
    /\ served > 0
    /\ ~listening
    /\ openHandles = 1

\* C29: at every point of bootstrap at most one connection handle is open,
\* also between an attempt's connect and the close that follows its failed
\* probe, and after bootstrap exhaustion no handle remains open.
C29_OneHandleDuringBootstrap ==
    /\ (pc = "retry" /\ adapter # "none") =>
          /\ openHandles <= 1
          /\ \A fk \in FailKinds(adapter) \cup {"ok"} :
                openHandles + OpenedInAttempt(adapter, fk) <= 1
    /\ (pc = "newFailed" /\ err # NoErr) => openHandles = 0

C29_Witness ==
    /\ pc = "newFailed"
    /\ adapter \in {"dsnative", "doc"}
    /\ attempts = RetryCeiling
    /\ err = "ping"
    /\ openHandles = 0

\* C26: during bootstrap of every adapter each failed attempt, the final one
\* included, produces a log entry carrying its attempt number: while New
\* retries and when it gives up, every attempt made so far has its entry.
C26_EveryFailedAttemptLogged ==
    (adapter # "none" /\ (pc = "retry" \/ (pc = "newFailed" /\ err # NoErr))) =>
       \A n \in 1..attempts : n \in logged

\* C30: every batch prepared by the native columnar insert is, on every
\* return path of the handler (success, row-append failure, send failure),
\* either sent or explicitly released, so after any sequence of insert
\* requests no prepared batch is left holding a pooled connection.
C30_NoAbandonedBatch == abandoned = 0

\* The step in which main ends the process: os.Exit(1) or the return that
\* follows svc.Stop(). Steps of main never touch the request being handled.
MainEnds == pc # "exit" /\ pc' = "exit" /\ UNCHANGED reqVars

\* A signal delivered while New was running and not yet received by main.
SignalAwaitsMain ==
    sigAt = "bootstrap" /\ pc \in {"retry", "register", "listen", "newFailed", "serving"}

\* C27: a SIGINT/SIGTERM delivered while bootstrap is still retrying is not
\* lost and does not interrupt bootstrap: it stays buffered while New runs on;
\* if bootstrap succeeds main receives it at once and goes to Stop, which
\* stops the listener, releases the handle and ends the process with exit
\* code 0; if bootstrap fails the process exits 1.
C27_SignalDuringBootstrap ==
    /\ [](SignalAwaitsMain =>
            /\ sigPending
            /\ pc # "newFailed" => exitCode = -1
            /\ pc = "retry" => ENABLED (NewAttempt \/ NewPing)
            /\ pc = "serving" => ENABLED MainWait
            /\ pc = "newFailed" => ENABLED MainFail)
    /\ [][(launch.host = "main" /\ sigAt' = "bootstrap") =>
            /\ (sigAt = "none" /\ pc = "retry") =>
                  UNCHANGED << pc, bootVars, openHandles, exitCode >>
            /\ MainEnds =>
                  IF pc = "stopHandle"
                  THEN /\ exitCode' = 0
                       /\ ~listening'
                       /\ openHandles' = 0
                  ELSE exitCode' = 1]_vars

C27_Witness ==
    /\ sigAt = "bootstrap"
    /\ pc = "exit"
    /\ exitCode = 0
    /\ served = 0
    /\ ~sigPending
    /\ ~listening
    /\ openHandles = 0

\* C23: handling a request never modifies adapter state: for any
\* interleaving of concurrent requests the adapter's configured default
\* database and its connection handle reference are unchanged, a per-request
\* database override applies only to the request that carries it, and every
\* request without an override uses the configured default.
C23_HandlersLeaveProxyAlone ==
    /\ proxy = NewProxy(adapter)
    /\ \A w \in DOMAIN conc :
          /\ conc[w].pc \in {"selected", "called"} =>
                /\ conc[w].db \in {conc[w].override, DefaultDatabase(adapter)}
                /\ conc[w].override = "" => conc[w].db = DefaultDatabase(adapter)
                /\ (conc[w].override # "" /\ adapter \in {"dshttp", "doc"}) =>
                      conc[w].db = conc[w].override
          /\ conc[w].pc = "called" => conc[w].handle = TheHandle

C23_Witness ==
    \E w1, w2 \in DOMAIN conc :
       /\ conc[w1].pc = "called"
       /\ conc[w1].override = "other"
       /\ conc[w1].db = "other"
       /\ conc[w2].pc = "called"
       /\ conc[w2].override = ""
       /\ conc[w2].db = DefaultDatabase(adapter)
       /\ proxy = NewProxy(adapter)

====
